---- MODULE Spec2Model ----
(***************************************************************************)
(* Naisu: the intent lifecycle (naisu-agent orchestrator), the API's       *)
(* intent store (naisu-api state and create_intent handler) and the CCTP   *)
(* attestation client (naisu-bridge).                                      *)
(*                                                                         *)
(* A Rust String is a sequence of one-character strings; Option<T> is the  *)
(* empty sequence (None) or a one-element sequence (Some).  A u64 value is *)
(* its decimal digit sequence without leading zeros (zero is <<>>), so     *)
(* that the 2^64 boundary is exact.                                        *)
(***************************************************************************)
EXTENDS Integers, Sequences, FiniteSets, TLC

VARIABLES call, intents, req, status_updates, poll, reply,
          chain, listener, channel, consumer, earlier

\* The ingestion side: the watched chain, the listener task, the channel
\* between the listener and its consumer, and the consumer.
ingest == <<chain, listener, channel, consumer>>

vars == <<call, intents, req, status_updates, poll, reply, ingest, earlier>>

None == <<>>
Some(x) == <<x>>

\* ------------------------------------------------------------------ bounds
\* Longest usdc_amount string enumerated character by character.
MaxLen == 2
\* Largest strategy id carried by an enumerated event.
MaxStrategyId == 2
\* Largest max_attempts handed to poll_attestation.
MaxAttempts == 3
\* Concurrent create_intent requests.
NumRequests == 2
\* Calls of update_intent_status made on the store.
MaxStatusUpdates == 2
\* Highest block of the watched chain.
MaxBlock == 3
\* Capacity of the event channel (mpsc::channel(100)), scaled down.
ChannelCapacity == 2
\* Block-number reads of one run of the polling loop.
MaxTicks == 2

\* ----------------------------------------------------------- u64 parsing
DigitChars == {"0", "1", "2", "3", "4", "5", "6", "7", "8", "9"}

DigitVal(c) ==
    CASE c = "0" -> 0 [] c = "1" -> 1 [] c = "2" -> 2 [] c = "3" -> 3
      [] c = "4" -> 4 [] c = "5" -> 5 [] c = "6" -> 6 [] c = "7" -> 7
      [] c = "8" -> 8 [] c = "9" -> 9

\* u64::MAX = 18446744073709551615
U64_MAX == <<1, 8, 4, 4, 6, 7, 4, 4, 0, 7, 3, 7, 0, 9, 5, 5, 1, 6, 1, 5>>

RECURSIVE StripZeros(_)
StripZeros(d) ==
    IF d # <<>> /\ d[1] = 0 THEN StripZeros(Tail(d)) ELSE d

RECURSIVE LexLeq(_, _)
LexLeq(a, b) ==
    IF a = <<>> THEN TRUE
    ELSE IF a[1] < b[1] THEN TRUE
    ELSE IF a[1] > b[1] THEN FALSE
    ELSE LexLeq(Tail(a), Tail(b))

\* d and m are digit sequences without leading zeros: d <= m as numbers.
NumLeq(d, m) ==
    \/ Len(d) < Len(m)
    \/ Len(d) = Len(m) /\ LexLeq(d, m)

\* from_str that keeps the low 19 decimal digits of a value above u64::MAX
\* instead of failing.
ParseU64_truncating(s) ==
    IF s = <<>> THEN None
    ELSE IF Len(s) = 1 /\ s[1] \in {"+", "-"} THEN None
    ELSE LET digits == IF s[1] = "+" THEN Tail(s) ELSE s IN
         IF \E i \in 1..Len(digits) : digits[i] \notin DigitChars THEN None
         ELSE LET v == StripZeros([i \in 1..Len(digits) |-> DigitVal(digits[i])]) IN
              IF NumLeq(v, U64_MAX) THEN Some(v)
              ELSE Some(StripZeros(SubSeq(v, Len(v) - 18, Len(v))))

\* <u64 as FromStr>::from_str: Some(value) or None (any ParseIntError).
\* An empty string, a lone sign, a non-digit (a '-' included: u64 is
\* unsigned) and a value above u64::MAX are errors; one leading '+' is
\* accepted.
ParseU64(s) ==
    IF s = <<>> THEN None
    ELSE IF Len(s) = 1 /\ s[1] \in {"+", "-"} THEN None
    ELSE LET digits == IF s[1] = "+" THEN Tail(s) ELSE s IN
         IF \E i \in 1..Len(digits) : digits[i] \notin DigitChars THEN None
         ELSE LET v == StripZeros([i \in 1..Len(digits) |-> DigitVal(digits[i])]) IN
              IF NumLeq(v, U64_MAX) THEN Some(v) ELSE None

Zero == <<>>

\* ------------------------------------------------------------ domain model
CCTP_DOMAIN_BASE == 5
CCTP_DOMAIN_SUI == 10

Statuses == {"Pending", "SwapCompleted", "Bridging", "BridgeCompleted",
             "Deposited", "Completed", "Failed", "Cancelled"}

Terminal == {"Completed", "Failed", "Cancelled"}

\* from_id with every unrecognized id folded into Custom(0).
from_id_custom_zero(id) ==
    CASE id = 1 -> [tag |-> "ScallopUsdc", custom |-> 0]
      [] id = 2 -> [tag |-> "ScallopSui", custom |-> 0]
      [] id = 3 -> [tag |-> "NaviUsdc", custom |-> 0]
      [] id = 4 -> [tag |-> "NaviSui", custom |-> 0]
      [] OTHER -> [tag |-> "Custom", custom |-> 0]

\* YieldStrategy::from_id
from_id(id) ==
    CASE id = 1 -> [tag |-> "ScallopUsdc", custom |-> 0]
      [] id = 2 -> [tag |-> "ScallopSui", custom |-> 0]
      [] id = 3 -> [tag |-> "NaviUsdc", custom |-> 0]
      [] id = 4 -> [tag |-> "NaviSui", custom |-> 0]
      [] OTHER -> [tag |-> "Custom", custom |-> id]

\* Intent::set_status
set_status(intent, status) == [intent EXCEPT !.status = status]

\* Intent::new_evm_to_sui
new_evm_to_sui(id, source_address, dest_address, input_amount, strategy) ==
    [id |-> id, direction |-> "EvmToSui", status |-> "Pending",
     source_address |-> source_address, dest_address |-> dest_address,
     input_amount |-> input_amount, usdc_amount |-> None,
     strategy |-> Some(strategy), bridge_nonce |-> None]

\* Intent::new_sui_to_evm.  The constructor's choice of usdc_amount (absent,
\* or the request's amount) is its last parameter.
new_sui_to_evm(id, source_address, dest_address, input_amount, usdc_amount) ==
    [id |-> id, direction |-> "SuiToEvm", status |-> "Pending",
     source_address |-> source_address, dest_address |-> dest_address,
     input_amount |-> input_amount, usdc_amount |-> usdc_amount,
     strategy |-> None, bridge_nonce |-> None]

\* format!("mock_nonce_{}", intent.id)
mock_nonce(id) == <<"mock_nonce_", id>>

\* CctpClient::build_deposit_for_burn_params
TOKEN_MESSENGER_BASE_SEPOLIA == "0x9a4427fd4196d315517ed71ddd16BD053cC9c4a4"
USDC_BASE_SEPOLIA == "0x036CbD53842c5426634e7929541eC2318f3dCF7e"

\* build_deposit_for_burn_params with the destination domain fixed to Sui.
build_deposit_for_burn_params_sui_only(amount, dest_domain, dest_address) ==
    [token_messenger |-> TOKEN_MESSENGER_BASE_SEPOLIA,
     usdc_address |-> USDC_BASE_SEPOLIA,
     amount |-> amount,
     destination_domain |-> CCTP_DOMAIN_SUI,
     destination_address |-> dest_address]

build_deposit_for_burn_params(amount, dest_domain, dest_address) ==
    [token_messenger |-> TOKEN_MESSENGER_BASE_SEPOLIA,
     usdc_address |-> USDC_BASE_SEPOLIA,
     amount |-> amount,
     destination_domain |-> dest_domain,
     destination_address |-> dest_address]

\* ------------------------------------------------- orchestrator: call frame
\* One call of the orchestrator: its arguments, its locals and its result.
\* updates is the sequence of set_status calls the call has made, each with
\* the bridge_nonce the intent carried at that moment.
Frame(op, pc, event, input, intent) ==
    [op |-> op, pc |-> pc, event |-> event, input |-> input, intent |-> intent,
     usdc |-> None, params |-> None, attestation |-> None,
     updates |-> <<>>, result |-> None, returned |-> None]

Idle == Frame("none", "idle", None, None, None)

\* intent.set_status(status) inside a call
apply_status(f, status) ==
    [f EXCEPT !.intent = Some(set_status(f.intent[1], status)),
              !.updates = Append(@, [status |-> status,
                                     bridge_nonce |-> f.intent[1].bridge_nonce])]

Err(kind, arg) == Some([kind |-> kind, arg |-> arg])
Ok == Some([kind |-> "Ok", arg |-> <<>>])

\* ------------------------------------------ process_evm_to_sui, step by step
evm_new(f) ==
    LET event == f.event[1]
        strategy == from_id(event.strategy_id)
        intent == new_evm_to_sui(event.intent_id, event.user, event.sui_destination,
                                 event.input_amount, strategy)
    IN [f EXCEPT !.intent = Some([intent EXCEPT !.usdc_amount = Some(event.usdc_amount)]),
                 !.pc = "swap_completed"]

evm_swap_completed(f) == [apply_status(f, "SwapCompleted") EXCEPT !.pc = "parse"]

\* evm_parse with the parse failure defaulted to zero (unwrap_or(0), as
\* process_sui_to_evm parses) instead of returned.
evm_parse_default_zero(f) ==
    LET parsed == ParseU64(f.event[1].usdc_amount) IN
    [f EXCEPT !.usdc = IF parsed = None THEN Some(Zero) ELSE parsed, !.pc = "build"]

evm_parse(f) ==
    LET parsed == ParseU64(f.event[1].usdc_amount) IN
    IF parsed = None
    THEN [f EXCEPT !.result = Err("InvalidAmount", f.event[1].usdc_amount), !.pc = "done"]
    ELSE [f EXCEPT !.usdc = parsed, !.pc = "build"]

evm_build(f) ==
    [f EXCEPT !.params = Some(build_deposit_for_burn_params(
                                  f.usdc[1], CCTP_DOMAIN_SUI, f.intent[1].dest_address)),
              !.pc = "nonce"]

\* evm_nonce that numbers the nonce by the calls made before.
evm_nonce_counts_calls(f) ==
    [f EXCEPT !.intent = Some([f.intent[1] EXCEPT
                                  !.bridge_nonce = Some(mock_nonce(<<f.intent[1].id,
                                                                     Len(earlier)>>))]),
              !.pc = "bridging"]

evm_nonce(f) ==
    [f EXCEPT !.intent = Some([f.intent[1] EXCEPT
                                  !.bridge_nonce = Some(mock_nonce(f.intent[1].id))]),
              !.pc = "bridging"]

evm_bridging(f) == [apply_status(f, "Bridging") EXCEPT !.pc = "bridge_completed"]

evm_bridge_completed(f) == [apply_status(f, "BridgeCompleted") EXCEPT !.pc = "deposited"]

\* evm_deposited without its set_status call.
evm_deposited_skipped(f) == [f EXCEPT !.pc = "completed"]

evm_deposited(f) == [apply_status(f, "Deposited") EXCEPT !.pc = "completed"]

evm_completed(f) == [apply_status(f, "Completed") EXCEPT !.pc = "return"]

evm_return(f) == [f EXCEPT !.result = Ok, !.returned = f.intent, !.pc = "done"]

evm_step(f) ==
    CASE f.pc = "new" -> evm_new(f)
      [] f.pc = "swap_completed" -> evm_swap_completed(f)
      [] f.pc = "parse" -> evm_parse(f)
      [] f.pc = "build" -> evm_build(f)
      [] f.pc = "nonce" -> evm_nonce(f)
      [] f.pc = "bridging" -> evm_bridging(f)
      [] f.pc = "bridge_completed" -> evm_bridge_completed(f)
      [] f.pc = "deposited" -> evm_deposited(f)
      [] f.pc = "completed" -> evm_completed(f)
      [] f.pc = "return" -> evm_return(f)

\* The steps in sequence, each on the frame the step before left.
RECURSIVE evm_run(_)
evm_run(f) ==
    IF f.pc = "done" THEN f
    ELSE CHOOSE r \in {evm_run(g) : g \in {evm_step(f)}} : TRUE

\* process_evm_to_sui(event), run to its return: the frame at return holds
\* the call's result and the intent it returns.
process_evm_to_sui(event) == evm_run(Frame("evm", "new", Some(event), None, None))

\* ------------------------------------------ process_sui_to_evm, step by step
\* sui_parse with the zero check dropped: only an absent or unparsable
\* amount is rejected.
sui_parse_zero_accepted(f) ==
    LET a == f.intent[1].usdc_amount
        parsed == IF a = None THEN None ELSE ParseU64(a[1])
    IN IF parsed = None
       THEN [f EXCEPT !.result = Err("InvalidAmount", <<"0">>), !.pc = "done"]
       ELSE [f EXCEPT !.usdc = parsed, !.pc = "build"]

sui_parse(f) ==
    LET a == f.intent[1].usdc_amount
        parsed == IF a = None THEN None ELSE ParseU64(a[1])
        usdc_amount == IF parsed = None THEN Zero ELSE parsed[1]
    IN IF usdc_amount = Zero
       THEN [f EXCEPT !.result = Err("InvalidAmount", <<"0">>), !.pc = "done"]
       ELSE [f EXCEPT !.usdc = Some(usdc_amount), !.pc = "build"]

\* sui_build with the domain of the other direction.
sui_build_to_sui(f) ==
    [f EXCEPT !.params = Some(build_deposit_for_burn_params(
                                  f.usdc[1], CCTP_DOMAIN_SUI, f.intent[1].dest_address)),
              !.pc = "nonce"]

sui_build(f) ==
    [f EXCEPT !.params = Some(build_deposit_for_burn_params(
                                  f.usdc[1], CCTP_DOMAIN_BASE, f.intent[1].dest_address)),
              !.pc = "nonce"]

\* sui_nonce without the assignment of bridge_nonce.
sui_nonce_skipped(f) == [f EXCEPT !.pc = "bridging"]

sui_nonce(f) ==
    [f EXCEPT !.intent = Some([f.intent[1] EXCEPT
                                  !.bridge_nonce = Some(mock_nonce(f.intent[1].id))]),
              !.pc = "bridging"]

sui_bridging(f) == [apply_status(f, "Bridging") EXCEPT !.pc = "bridge_completed"]

sui_bridge_completed(f) == [apply_status(f, "BridgeCompleted") EXCEPT !.pc = "completed"]

sui_completed(f) == [apply_status(f, "Completed") EXCEPT !.pc = "return"]

sui_return(f) == [f EXCEPT !.result = Ok, !.pc = "done"]

sui_step(f) ==
    CASE f.pc = "parse" -> sui_parse(f)
      [] f.pc = "build" -> sui_build(f)
      [] f.pc = "nonce" -> sui_nonce(f)
      [] f.pc = "bridging" -> sui_bridging(f)
      [] f.pc = "bridge_completed" -> sui_bridge_completed(f)
      [] f.pc = "completed" -> sui_completed(f)
      [] f.pc = "return" -> sui_return(f)

RECURSIVE sui_run(_)
sui_run(f) == IF f.pc = "done" THEN f ELSE sui_run(sui_step(f))

\* process_sui_to_evm(&mut intent), run to its return: the frame at return
\* holds the intent as the call left it and the call's result.
process_sui_to_evm(intent) == sui_run(Frame("sui", "parse", None, Some(intent), Some(intent)))

\* --------------------------------------------------------- enumerated inputs
Alphabet == {"0", "7", "+", "-", "x"}

RECURSIVE Strings(_)
Strings(n) ==
    IF n = 0 THEN {<<>>}
    ELSE LET shorter == Strings(n - 1) IN
         shorter \cup {Append(s, c) : s \in {t \in shorter : Len(t) = n - 1}, c \in Alphabet}

BoundaryStrings ==
    {<<"1", "5", "0", "0", "0", "0", "0">>,
     <<"1", "8", "4", "4", "6", "7", "4", "4", "0", "7",
       "3", "7", "0", "9", "5", "5", "1", "6", "1", "5">>,
     <<"1", "8", "4", "4", "6", "7", "4", "4", "0", "7",
       "3", "7", "0", "9", "5", "5", "1", "6", "1", "6">>,
     <<"1", "8", "4", "4", "6", "7", "4", "4", "0", "7",
       "3", "7", "1", "1", "0", "5", "1", "6", "1", "6">>,
     <<"1", "8", "4", "4", "6", "7", "4", "4", "0", "7",
       "3", "7", "0", "9", "5", "5", "1", "6", "1", "6", "0">>}

AmountStrings == Strings(MaxLen) \cup BoundaryStrings

Events ==
    [intent_id : {"e1"}, user : {"0xuser"}, sui_destination : {"0xsui"},
     input_amount : {<<"7">>}, usdc_amount : AmountStrings,
     strategy_id : 0..MaxStrategyId]

SuiInputs ==
    {[new_sui_to_evm("i1", "0xsuiuser", "0xevm", <<"7">>, u)
        EXCEPT !.status = s, !.bridge_nonce = n] :
        s \in Statuses,
        u \in {None} \cup {Some(a) : a \in AmountStrings},
        n \in {None, Some(<<"n0">>)}}

\* -------------------------------------------- Spec: calls of the orchestrator
StartEvm ==
    /\ call.op = "none"
    /\ \E event \in Events : call' = Frame("evm", "new", Some(event), None, None)
    /\ UNCHANGED <<intents, req, status_updates, poll, reply, ingest, earlier>>

StartSui ==
    /\ call.op = "none"
    /\ \E intent \in SuiInputs : call' = Frame("sui", "parse", None, Some(intent), Some(intent))
    /\ UNCHANGED <<intents, req, status_updates, poll, reply, ingest, earlier>>

At(op, pc) == call.op = op /\ call.pc = pc

EvmNew == At("evm", "new") /\ call' = evm_new(call) /\ UNCHANGED <<intents, req, status_updates, poll, reply, ingest, earlier>>
EvmSwapCompleted ==
    At("evm", "swap_completed") /\ call' = evm_swap_completed(call) /\ UNCHANGED <<intents, req, status_updates, poll, reply, ingest, earlier>>
EvmParse == At("evm", "parse") /\ call' = evm_parse(call) /\ UNCHANGED <<intents, req, status_updates, poll, reply, ingest, earlier>>
EvmBuild == At("evm", "build") /\ call' = evm_build(call) /\ UNCHANGED <<intents, req, status_updates, poll, reply, ingest, earlier>>
EvmNonce == At("evm", "nonce") /\ call' = evm_nonce(call) /\ UNCHANGED <<intents, req, status_updates, poll, reply, ingest, earlier>>
EvmBridging == At("evm", "bridging") /\ call' = evm_bridging(call) /\ UNCHANGED <<intents, req, status_updates, poll, reply, ingest, earlier>>
EvmBridgeCompleted ==
    At("evm", "bridge_completed") /\ call' = evm_bridge_completed(call) /\ UNCHANGED <<intents, req, status_updates, poll, reply, ingest, earlier>>
EvmDeposited == At("evm", "deposited") /\ call' = evm_deposited(call) /\ UNCHANGED <<intents, req, status_updates, poll, reply, ingest, earlier>>
EvmCompleted == At("evm", "completed") /\ call' = evm_completed(call) /\ UNCHANGED <<intents, req, status_updates, poll, reply, ingest, earlier>>
EvmReturn == At("evm", "return") /\ call' = evm_return(call) /\ UNCHANGED <<intents, req, status_updates, poll, reply, ingest, earlier>>

SuiStep ==
    /\ call.op = "sui"
    /\ call.pc # "done"
    /\ call' = sui_step(call)
    /\ UNCHANGED <<intents, req, status_updates, poll, reply, ingest, earlier>>

\* What the caller of process_evm_to_sui has in hand when the call returns:
\* the event it passed, the result, the intent returned and the set_status
\* calls the call made.
Seen(f) == [event |-> f.event[1], result |-> f.result, returned |-> f.returned,
            updates |-> f.updates]

\* The caller takes the result of a process_evm_to_sui call and keeps it for
\* comparison with later calls; the orchestrator keeps nothing of the call.
FinishSeen ==
    /\ call.op = "evm" /\ call.pc = "done"
    /\ earlier = None
    /\ earlier' = Some(Seen(call))
    /\ call' = Idle
    /\ UNCHANGED <<intents, req, status_updates, poll, reply, ingest>>

\* Redelivered events: an event of each strategy id with each boundary amount.
ReplayEvents == {e \in Events : e.usdc_amount \in BoundaryStrings \cup {<<"0">>}}

StartEvmReplay ==
    /\ call.op = "none"
    /\ \E event \in ReplayEvents : call' = Frame("evm", "new", Some(event), None, None)
    /\ UNCHANGED <<intents, req, status_updates, poll, reply, ingest, earlier>>

\* The caller takes the result; the orchestrator keeps nothing of the call.
Finish ==
    /\ call.pc = "done"
    /\ call' = Idle
    /\ UNCHANGED <<intents, req, status_updates, poll, reply, ingest, earlier>>

\* ------------------------------------------------ the API's intent store
Reqs == 1..NumRequests

\* The id create_intent draws (Uuid::new_v4): fresh for every request.
new_id(r) == r

\* AppState::get_intent
get_intent(store, id) == IF id \in DOMAIN store THEN Some(store[id]) ELSE None

\* upsert_intent that replaces the whole map by the one entry.
upsert_intent_replacing_store(store, intent) ==
    [id \in {intent.id} |-> intent]

\* AppState::upsert_intent
upsert_intent(store, intent) ==
    [id \in DOMAIN store \cup {intent.id} |->
        IF id = intent.id THEN intent ELSE store[id]]

\* AppState::update_intent_status: the store afterwards (the call returns
\* whether the id was found).
update_intent_status(store, id, status) ==
    IF id \in DOMAIN store
    THEN [store EXCEPT ![id] = set_status(store[id], status)]
    ELSE store

Payloads ==
    [direction : {"EvmToSui"}, strategy : {None, Some(from_id(1))},
     source_address : {"0xuser"}, dest_address : {"0xsui"},
     input_amount : {<<"7">>}]
    \cup
    [direction : {"SuiToEvm"}, strategy : {None},
     source_address : {"0xsuiuser"}, dest_address : {"0xevm"},
     input_amount : {<<"0">>, <<"7">>}]

\* One create_intent request: where it is, the intent as first stored
\* (initial), the local `intent` and the response.
NewReq == [pc |-> "start", initial |-> None, intent |-> None, response |-> None]

\* create_intent up to and including the first upsert (and, for EvmToSui,
\* to the response: nothing else touches the store).
CreateStart(r) ==
    /\ req[r].pc = "start"
    /\ \E p \in Payloads :
         IF p.direction = "EvmToSui"
         THEN IF p.strategy = None
              THEN /\ req' = [req EXCEPT ![r] =
                                [pc |-> "done", initial |-> None, intent |-> None,
                                 response |-> Some([kind |-> "BadRequest", intent |-> None])]]
                   /\ UNCHANGED intents
              ELSE LET intent == new_evm_to_sui(new_id(r), p.source_address, p.dest_address,
                                                p.input_amount, p.strategy[1])
                   IN /\ intents' = upsert_intent(intents, intent)
                      /\ req' = [req EXCEPT ![r] =
                                   [pc |-> "done", initial |-> Some(intent),
                                    intent |-> Some(intent),
                                    response |-> Some([kind |-> "Ok", intent |-> Some(intent)])]]
         ELSE \E u \in {None, Some(p.input_amount)} :
                LET intent == new_sui_to_evm(new_id(r), p.source_address, p.dest_address,
                                             p.input_amount, u)
                IN /\ intents' = upsert_intent(intents, intent)
                   /\ req' = [req EXCEPT ![r] =
                                [pc |-> "process", initial |-> Some(intent),
                                 intent |-> Some(intent), response |-> None]]
    /\ UNCHANGED <<call, status_updates, poll, reply, ingest, earlier>>

\* CreateProcess whose error branch marks the stored intent Failed.
CreateProcessMarksFailed(r) ==
    /\ req[r].pc = "process"
    /\ LET f == process_sui_to_evm(req[r].intent[1]) IN
       IF f.result = Ok
       THEN /\ intents' = upsert_intent(intents, f.intent[1])
            /\ req' = [req EXCEPT ![r].pc = "get"]
       ELSE /\ req' = [req EXCEPT ![r].pc = "done",
                                  ![r].response = Some([kind |-> "Ok", intent |-> req[r].intent])]
            /\ intents' = update_intent_status(intents, new_id(r), "Failed")
    /\ UNCHANGED <<call, status_updates, poll, reply, ingest, earlier>>

\* create_intent from the first upsert to the second: process_sui_to_evm on a
\* clone, then the upsert of the processed clone, or the error branch.
CreateProcess(r) ==
    /\ req[r].pc = "process"
    /\ LET f == process_sui_to_evm(req[r].intent[1]) IN
       IF f.result = Ok
       THEN /\ intents' = upsert_intent(intents, f.intent[1])
            /\ req' = [req EXCEPT ![r].pc = "get"]
       ELSE /\ req' = [req EXCEPT ![r].pc = "done",
                                  ![r].response = Some([kind |-> "Ok", intent |-> req[r].intent])]
            /\ UNCHANGED intents
    /\ UNCHANGED <<call, status_updates, poll, reply, ingest, earlier>>

\* create_intent's read-back of the stored intent, and the response.
CreateGet(r) ==
    /\ req[r].pc = "get"
    /\ LET updated == get_intent(intents, new_id(r))
           intent == IF updated # None THEN updated ELSE req[r].intent
       IN req' = [req EXCEPT ![r] = [pc |-> "done", initial |-> req[r].initial,
                                     intent |-> intent,
                                     response |-> Some([kind |-> "Ok", intent |-> intent])]]
    /\ UNCHANGED <<intents, call, status_updates, poll, reply, ingest, earlier>>

\* A caller of the store updates a status; status_updates counts these calls.
UpdateIntentStatus(id, status) ==
    /\ status_updates < MaxStatusUpdates
    /\ id \in DOMAIN intents
    /\ intents' = update_intent_status(intents, id, status)
    /\ status_updates' = status_updates + 1
    /\ UNCHANGED <<call, req, poll, reply, ingest, earlier>>

\* ------------------------------------------------------ attestation client
\* What the attestation service answers to one GET /attestations/{nonce}:
\* whether the request went through, the HTTP status, the body as text,
\* whether the body is the expected JSON, and its data field.
Responses ==
    {[sent |-> FALSE, status |-> 0, body |-> "", json |-> FALSE, data |-> None],
     [sent |-> TRUE, status |-> 404, body |-> "not found", json |-> FALSE, data |-> None],
     [sent |-> TRUE, status |-> 400, body |-> "", json |-> FALSE, data |-> None],
     [sent |-> TRUE, status |-> 500, body |-> "oops", json |-> FALSE, data |-> None],
     [sent |-> TRUE, status |-> 200, body |-> "<html>", json |-> FALSE, data |-> None],
     [sent |-> TRUE, status |-> 200, body |-> "{}", json |-> TRUE, data |-> None],
     [sent |-> TRUE, status |-> 200, body |-> "{data}", json |-> TRUE,
      data |-> Some([message |-> "msg", attestation_signature |-> "sig",
                     status |-> "pending_confirmations"])],
     [sent |-> TRUE, status |-> 200, body |-> "{data}", json |-> TRUE,
      data |-> Some([message |-> "msg", attestation_signature |-> "sig",
                     status |-> "Complete"])],
     [sent |-> TRUE, status |-> 200, body |-> "{data}", json |-> TRUE,
      data |-> Some([message |-> "msg", attestation_signature |-> "sig",
                     status |-> "complete"])]}

\* StatusCode::is_success
is_success(status) == 200 <= status /\ status <= 299

\* A Result<Option<CctpAttestation>, CctpError>: kind is Ok or the error's
\* variant; status and message are the fields of CctpError::Api.
Outcome(kind, status, message, attestation) ==
    [kind |-> kind, status |-> status, message |-> message, attestation |-> attestation]

\* get_attestation with the not-found answer treated as any other
\* non-success answer.
get_attestation_not_found_is_error(resp) ==
    IF ~resp.sent THEN Outcome("Request", 0, "", None)
    ELSE IF ~is_success(resp.status) THEN Outcome("Api", resp.status, resp.body, None)
    ELSE IF ~resp.json THEN Outcome("Parse", 0, "", None)
    ELSE IF resp.data # None /\ resp.data[1].status = "complete"
         THEN Outcome("Ok", 0, "",
                      Some([message |-> resp.data[1].message,
                            attestation_signature |-> resp.data[1].attestation_signature]))
    ELSE Outcome("Ok", 0, "", None)

\* CctpClient::get_attestation on one answer of the service
get_attestation(resp) ==
    IF ~resp.sent THEN Outcome("Request", 0, "", None)
    ELSE IF resp.status = 404 THEN Outcome("Ok", 0, "", None)
    ELSE IF ~is_success(resp.status) THEN Outcome("Api", resp.status, resp.body, None)
    ELSE IF ~resp.json THEN Outcome("Parse", 0, "", None)
    ELSE IF resp.data # None /\ resp.data[1].status = "complete"
         THEN Outcome("Ok", 0, "",
                      Some([message |-> resp.data[1].message,
                            attestation_signature |-> resp.data[1].attestation_signature]))
    ELSE Outcome("Ok", 0, "", None)

PollIdle ==
    [pc |-> "idle", max_attempts |-> 0, attempt |-> 0, lookups |-> 0, sleeps |-> 0,
     answers |-> <<>>, result |-> None]

\* poll_attestation(nonce, max_attempts, interval_secs) is called.
PollStart ==
    /\ poll.pc = "idle"
    /\ \E m \in 0..MaxAttempts : poll' = [PollIdle EXCEPT !.pc = "loop", !.max_attempts = m]
    /\ UNCHANGED <<call, intents, req, status_updates, reply, ingest, earlier>>

\* The range with an inclusive upper end (0..=max_attempts).
has_next_inclusive(p) == p.attempt <= p.max_attempts

\* The iterator of `for attempt in 0..max_attempts` has another element.
has_next(p) == p.attempt < p.max_attempts

\* The head of the for loop: the range 0..max_attempts is exhausted.
PollTimeout ==
    /\ poll.pc = "loop"
    /\ ~has_next(poll)
    /\ poll' = [poll EXCEPT !.pc = "done",
                            !.result = Some(Outcome("AttestationTimeout", 0, "", None))]
    /\ UNCHANGED <<call, intents, req, status_updates, reply, ingest, earlier>>

\* poll_lookup that sleeps and goes on after a non-empty attestation too.
poll_lookup_keeps_polling(p, resp) ==
    LET got == get_attestation(resp)
        q == [p EXCEPT !.lookups = @ + 1, !.answers = Append(@, resp)]
    IN IF got.kind # "Ok" THEN [q EXCEPT !.pc = "done", !.result = Some(got)]
       ELSE [q EXCEPT !.pc = "sleep"]

\* poll_lookup that skips the sleep after the last attempt of the range.
poll_lookup_no_trailing_sleep(p, resp) ==
    LET got == get_attestation(resp)
        q == [p EXCEPT !.lookups = @ + 1, !.answers = Append(@, resp)]
    IN IF got.kind # "Ok" THEN [q EXCEPT !.pc = "done", !.result = Some(got)]
       ELSE IF got.attestation # None THEN [q EXCEPT !.pc = "done", !.result = Some(got)]
       ELSE IF p.attempt + 1 = p.max_attempts THEN [q EXCEPT !.pc = "loop", !.attempt = @ + 1]
       ELSE [q EXCEPT !.pc = "sleep"]

\* poll_lookup that treats an error of get_attestation as an empty result.
poll_lookup_swallows_errors(p, resp) ==
    LET got == get_attestation(resp)
        q == [p EXCEPT !.lookups = @ + 1, !.answers = Append(@, resp)]
    IN IF got.attestation # None THEN [q EXCEPT !.pc = "done", !.result = Some(got)]
       ELSE [q EXCEPT !.pc = "sleep"]

\* One iteration's get_attestation(nonce).await? and the match on it.
poll_lookup(p, resp) ==
    LET got == get_attestation(resp)
        q == [p EXCEPT !.lookups = @ + 1, !.answers = Append(@, resp)]
    IN IF got.kind # "Ok" THEN [q EXCEPT !.pc = "done", !.result = Some(got)]
       ELSE IF got.attestation # None THEN [q EXCEPT !.pc = "done", !.result = Some(got)]
       ELSE [q EXCEPT !.pc = "sleep"]

PollLookup ==
    /\ poll.pc = "loop"
    /\ has_next(poll)
    /\ \E resp \in Responses : poll' = poll_lookup(poll, resp)
    /\ UNCHANGED <<call, intents, req, status_updates, reply, ingest, earlier>>

\* tokio::time::sleep at the end of an iteration, then the next attempt.
poll_sleep(p) == [p EXCEPT !.sleeps = @ + 1, !.attempt = @ + 1, !.pc = "loop"]

PollSleep ==
    /\ poll.pc = "sleep"
    /\ poll' = poll_sleep(poll)
    /\ UNCHANGED <<call, intents, req, status_updates, reply, ingest, earlier>>

\* The caller takes the result.
PollFinish ==
    /\ poll.pc = "done"
    /\ poll' = PollIdle
    /\ UNCHANGED <<call, intents, req, status_updates, reply, ingest, earlier>>

\* ------------------------------------------------------- stateless calls
\* The other entries of the bridge domain registry.
CCTP_DOMAIN_ETHEREUM == 0
CCTP_DOMAIN_AVALANCHE == 1
CCTP_DOMAIN_OPTIMISM == 2
CCTP_DOMAIN_ARBITRUM == 3

\* The largest u8: a strategy id is a u8.
U8_MAX == 255

\* YieldStrategy::id
id_of(strategy) ==
    CASE strategy.tag = "ScallopUsdc" -> 1
      [] strategy.tag = "ScallopSui" -> 2
      [] strategy.tag = "NaviUsdc" -> 3
      [] strategy.tag = "NaviSui" -> 4
      [] strategy.tag = "Custom" -> strategy.custom

RECURSIVE StringsOver(_, _)
StringsOver(alphabet, n) ==
    IF n = 0 THEN {<<>>}
    ELSE LET shorter == StringsOver(alphabet, n - 1) IN
         shorter \cup {Append(t, c) : t \in {u \in shorter : Len(u) = n - 1}, c \in alphabet}

RECURSIVE Pow10(_)
Pow10(n) == IF n = 0 THEN 1 ELSE 10 * Pow10(n - 1)

\* The digits d (characters) read as a decimal number.
RECURSIVE DecimalValue(_)
DecimalValue(d) ==
    IF d = <<>> THEN 0
    ELSE 10 * DecimalValue(SubSeq(d, 1, Len(d) - 1)) + DigitVal(d[Len(d)])

\* The position of the first "." of s, or Len(s) + 1.
RECURSIVE DotAt(_, _)
DotAt(s, i) == IF i > Len(s) \/ s[i] = "." THEN i ELSE DotAt(s, i + 1)

\* request.amount.parse::<f64>().unwrap_or(0.0), times 1_000_000.0, cast
\* `as u64`: on a decimal string (an optional sign, digits with at most one
\* point, at least one digit; at most six fraction digits) short enough for
\* the f64 product to be the exact integer, the amount in millionths; 0 for
\* a negative value (the cast saturates) and for a string that is no number.
amount_raw(s) ==
    LET signed == s # <<>> /\ s[1] \in {"+", "-"}
        body == IF signed THEN Tail(s) ELSE s
        dot == DotAt(body, 1)
        whole == SubSeq(body, 1, dot - 1)
        frac == SubSeq(body, dot + 1, Len(body))
        digits == whole \o frac
        wellformed == /\ digits # <<>>
                      /\ \A i \in 1..Len(digits) : digits[i] \in DigitChars
                      /\ Len(frac) <= 6
    IN IF ~wellformed THEN 0
       ELSE IF signed /\ s[1] = "-" THEN 0
       ELSE DecimalValue(whole) * 1000000 + DecimalValue(frac) * Pow10(6 - Len(frac))

\* str::trim_start_matches("0x") on an address given in chunks
RECURSIVE trim_start_matches_0x(_)
trim_start_matches_0x(a) ==
    IF a # <<>> /\ a[1] = "0x" THEN trim_start_matches_0x(Tail(a)) ELSE a

\* init_sui_to_evm_bridge: the tx_params of the response.
init_sui_to_evm_bridge(request) ==
    LET amount == amount_raw(request.amount)
        evm_addr == trim_start_matches_0x(request.evm_destination)
        padded_mint_recipient == <<"0x000000000000000000000000">> \o evm_addr
        dest_domain == 6
    IN [amount_raw |-> amount, dest_domain |-> dest_domain,
        mint_recipient |-> padded_mint_recipient]

DomainIds ==
    {CCTP_DOMAIN_ETHEREUM, CCTP_DOMAIN_AVALANCHE, CCTP_DOMAIN_OPTIMISM,
     CCTP_DOMAIN_ARBITRUM, CCTP_DOMAIN_BASE, CCTP_DOMAIN_SUI}

\* The u64 amounts the enumerated strings denote.
Amounts == {ParseU64(a)[1] : a \in {b \in AmountStrings : ParseU64(b) # None}}

Addresses == {"", "0xabc", "0xevm"}

FloatAlphabet == {"0", "1", ".", "-", "x"}

BridgeRequests ==
    [amount : StringsOver(FloatAlphabet, MaxLen),
     evm_destination : {<<"0x", "abc">>, <<"abc">>, <<"0x", "0x", "abc">>}]

NoReply == [op |-> "none", args |-> <<>>, result |-> <<>>]

\* A caller builds burn parameters with the client.
CallBuildParams ==
    /\ \E amount \in Amounts, dest_domain \in DomainIds, dest_address \in Addresses :
         reply' = [op |-> "build_deposit_for_burn_params",
                   args |-> <<amount, dest_domain, dest_address>>,
                   result |-> <<build_deposit_for_burn_params(amount, dest_domain, dest_address)>>]
    /\ UNCHANGED <<call, intents, req, status_updates, poll, ingest, earlier>>

\* POST of a SuiToEvmBridgeRequest to the bridge initiation endpoint.
CallInitSuiToEvmBridge ==
    /\ \E request \in BridgeRequests :
         reply' = [op |-> "init_sui_to_evm_bridge", args |-> <<request>>,
                   result |-> <<init_sui_to_evm_bridge(request)>>]
    /\ UNCHANGED <<call, intents, req, status_updates, poll, ingest, earlier>>

\* A strategy is built from an id and asked for its id.
CallFromId ==
    /\ \E x \in 0..U8_MAX :
         reply' = [op |-> "from_id", args |-> <<x>>,
                   result |-> <<from_id(x), id_of(from_id(x))>>]
    /\ UNCHANGED <<call, intents, req, status_updates, poll, ingest, earlier>>

\* ------------------------------------------------------- event ingestion
\* The chain is the log of each block 1..MaxBlock of the watched contract:
\* none, an IntentCreated log that decodes ("good") or one that does not
\* ("bad").  Block 0 carries no log.
\* What a block holds: no log of the hook, an IntentCreated log, a log that
\* does not decode as IntentCreated, or an IntentCreated log whose
\* usdcAmount (a uint256) is above u64::MAX.
LogKinds == {"none", "good", "bad", "huge"}

Blocks == 1..MaxBlock

EmptyChain == [b \in Blocks |-> "none"]

\* The logs of blocks from..to, in block order.
RECURSIVE logs_in(_, _, _)
logs_in(ch, from, to) ==
    IF from > to THEN <<>>
    ELSE (IF ch[from] = "none" THEN <<>> ELSE <<[block |-> from, kind |-> ch[from]]>>)
         \o logs_in(ch, from + 1, to)

\* The usdcAmount field of a decodable log, a uint256 as its decimal digits:
\* 1500000, or 2^64.
usdcAmount(log) ==
    IF log.kind = "huge"
    THEN <<1, 8, 4, 4, 6, 7, 4, 4, 0, 7, 3, 7, 0, 9, 5, 5, 1, 6, 1, 6>>
    ELSE <<1, 5, 0, 0, 0, 0, 0>>

DigitChar(d) ==
    CASE d = 0 -> "0" [] d = 1 -> "1" [] d = 2 -> "2" [] d = 3 -> "3"
      [] d = 4 -> "4" [] d = 5 -> "5" [] d = 6 -> "6" [] d = 7 -> "7"
      [] d = 8 -> "8" [] d = 9 -> "9"

\* U256::to_string: the decimal numeral of the value.
to_string(v) == IF v = <<>> THEN <<"0">> ELSE [i \in 1..Len(v) |-> DigitChar(v[i])]

\* The IntentCreatedEvent a decodable log carries; the block stands for the
\* log's intentId.
event_of(log) ==
    [intent_id |-> log.block, user |-> "0xuser", sui_destination |-> "0xsui",
     input_amount |-> to_string(<<7>>), usdc_amount |-> to_string(usdcAmount(log)),
     strategy_id |-> 1]

\* parse_intent_created_log
parse_intent_created_log(log) ==
    IF log.kind \in {"good", "huge"} THEN Some(event_of(log)) ELSE None

\* The listener task: mode is the branch run_listener takes; last_block and
\* current_block are the locals of run_polling_listener; batch is the rest
\* of the logs being iterated (poll mode) and cursor the next block of the
\* log stream (push mode); event is the event handed to tx.send.  ticks,
\* queries and sent record the block-number reads of the loop, the log
\* range queries and the events accepted by the channel.
NoListener ==
    [mode |-> "none", pc |-> "init", start_block |-> 0, last_block |-> 0,
     current_block |-> 0, batch |-> <<>>, cursor |-> 0, event |-> None,
     ticks |-> 0, queries |-> <<>>, sent |-> <<>>]

\* mpsc::channel::<IntentCreatedEvent>(100): the buffer, the receiver
\* (open, or closed once dropped) and the sender (open, or dropped).
NewChannel == [buffer |-> <<>>, rx |-> "open", tx |-> "open"]

\* The consumer loop: the events received, the one being processed and the
\* outcome of process_evm_to_sui for each event processed.
NewConsumer == [pc |-> "recv", received |-> <<>>, processing |-> None, processed |-> <<>>]

\* HookEventListener::start: the channel is made, the task is spawned and
\* run_listener picks the mode by the scheme of rpc_url.
ListenerStart ==
    /\ listener.mode = "none"
    /\ \E ch \in [Blocks -> LogKinds], mode \in {"poll", "ws"} :
         /\ chain' = ch
         /\ listener' = [NoListener EXCEPT !.mode = mode, !.pc = "connect"]
    /\ channel' = NewChannel
    /\ consumer' = NewConsumer
    /\ UNCHANGED <<call, intents, req, status_updates, poll, reply, earlier>>

\* The task returns: its sender is dropped.
stop(l) == [l EXCEPT !.pc = "stopped", !.event = None, !.batch = <<>>]

\* run_polling_listener up to the loop: the provider and address are built
\* and the start block is read (answer: None for an error of any of these).
poll_connect(l, answer) ==
    IF answer = None THEN stop(l)
    ELSE [l EXCEPT !.start_block = answer[1], !.last_block = answer[1], !.pc = "sleep"]

PollConnect ==
    /\ listener.mode = "poll" /\ listener.pc = "connect"
    /\ \E answer \in {None} \cup {Some(b) : b \in 0..MaxBlock} :
         /\ listener' = poll_connect(listener, answer)
         /\ channel' = IF answer = None THEN [channel EXCEPT !.tx = "dropped"] ELSE channel
    /\ UNCHANGED <<call, intents, req, status_updates, poll, reply, earlier, chain, consumer>>

\* poll_tick with the comparison current_block >= last_block.
poll_tick_inclusive(l, answer) ==
    IF answer = None THEN stop([l EXCEPT !.ticks = @ + 1])
    ELSE IF answer[1] >= l.last_block
         THEN [l EXCEPT !.ticks = @ + 1, !.current_block = answer[1], !.pc = "query"]
         ELSE [l EXCEPT !.ticks = @ + 1, !.current_block = answer[1]]

\* One tick of the loop: the sleep, get_block_number and the comparison.
poll_tick(l, answer) ==
    IF answer = None THEN stop([l EXCEPT !.ticks = @ + 1])
    ELSE IF answer[1] > l.last_block
         THEN [l EXCEPT !.ticks = @ + 1, !.current_block = answer[1], !.pc = "query"]
         ELSE [l EXCEPT !.ticks = @ + 1, !.current_block = answer[1]]

PollTick ==
    /\ listener.mode = "poll" /\ listener.pc = "sleep"
    /\ listener.ticks < MaxTicks
    /\ \E answer \in {None} \cup {Some(b) : b \in 0..MaxBlock} :
         /\ listener' = poll_tick(listener, answer)
         /\ channel' = IF answer = None THEN [channel EXCEPT !.tx = "dropped"] ELSE channel
    /\ UNCHANGED <<call, intents, req, status_updates, poll, reply, earlier, chain, consumer>>

\* poll_query that leaves last_block alone after a failed get_logs, so that
\* the range is asked for again.
poll_query_retries_failed(l, ch, ok) ==
    LET q == [from |-> l.last_block + 1, to |-> l.current_block, ok |-> ok] IN
    IF ok
    THEN [l EXCEPT !.queries = Append(@, q), !.pc = "batch",
                   !.batch = logs_in(ch, l.last_block + 1, l.current_block)]
    ELSE [l EXCEPT !.queries = Append(@, q), !.pc = "sleep"]

\* get_logs over last_block + 1 ..= current_block: the logs, or an error,
\* after which last_block is advanced all the same.
poll_query(l, ch, ok) ==
    LET q == [from |-> l.last_block + 1, to |-> l.current_block, ok |-> ok] IN
    IF ok
    THEN [l EXCEPT !.queries = Append(@, q), !.pc = "batch",
                   !.batch = logs_in(ch, l.last_block + 1, l.current_block)]
    ELSE [l EXCEPT !.queries = Append(@, q), !.pc = "sleep",
                   !.last_block = l.current_block]

PollQuery ==
    /\ listener.mode = "poll" /\ listener.pc = "query"
    /\ \E ok \in BOOLEAN : listener' = poll_query(listener, chain, ok)
    /\ UNCHANGED <<call, intents, req, status_updates, poll, reply, earlier, chain, channel, consumer>>

\* poll_next_log that gives up the rest of the batch at an undecodable log.
poll_next_log_stops_on_bad(l) ==
    IF l.batch = <<>>
    THEN [l EXCEPT !.last_block = l.current_block, !.pc = "sleep"]
    ELSE LET parsed == parse_intent_created_log(Head(l.batch)) IN
         IF parsed = None THEN [l EXCEPT !.batch = <<>>]
         ELSE [l EXCEPT !.batch = Tail(@), !.event = parsed, !.pc = "send"]

\* The head of `for log in logs`: the next log is decoded (an undecodable
\* one is skipped); after the last log last_block is advanced.
poll_next_log(l) ==
    IF l.batch = <<>>
    THEN [l EXCEPT !.last_block = l.current_block, !.pc = "sleep"]
    ELSE LET parsed == parse_intent_created_log(Head(l.batch)) IN
         IF parsed = None THEN [l EXCEPT !.batch = Tail(@)]
         ELSE [l EXCEPT !.batch = Tail(@), !.event = parsed, !.pc = "send"]

PollNextLog ==
    /\ listener.mode = "poll" /\ listener.pc = "batch"
    /\ listener' = poll_next_log(listener)
    /\ UNCHANGED <<call, intents, req, status_updates, poll, reply, earlier, chain, channel, consumer>>

\* tx.send(event).await completes: the receiver is gone, or there is room.
can_send(ch) == ch.rx # "open" \/ Len(ch.buffer) < ChannelCapacity

\* send that takes a closed channel for a delivered event and goes on.
send_ignores_closed(l, ch) ==
    [listener |-> [l EXCEPT !.event = None, !.sent = Append(@, l.event[1]),
                            !.pc = IF l.mode = "poll" THEN "batch" ELSE "stream"],
     channel |-> IF ch.rx # "open" THEN ch
                 ELSE [ch EXCEPT !.buffer = Append(@, l.event[1])]]

\* tx.send(event).await and the branch on its result: an error (the receiver
\* is closed) ends the task, otherwise the event is in the buffer and the
\* iteration goes on.
send(l, ch) ==
    IF ch.rx # "open"
    THEN [listener |-> stop(l), channel |-> [ch EXCEPT !.tx = "dropped"]]
    ELSE [listener |-> [l EXCEPT !.event = None, !.sent = Append(@, l.event[1]),
                                 !.pc = IF l.mode = "poll" THEN "batch" ELSE "stream"],
          channel |-> [ch EXCEPT !.buffer = Append(@, l.event[1])]]

Send ==
    /\ listener.pc = "send"
    /\ can_send(channel)
    /\ listener' = send(listener, channel).listener
    /\ channel' = send(listener, channel).channel
    /\ UNCHANGED <<call, intents, req, status_updates, poll, reply, earlier, chain, consumer>>

\* run_ws_listener up to the loop: connection, address and subscription
\* (None for an error of any of these); the stream carries the logs of the
\* blocks after the one at which the subscription was made.
ws_connect(l, answer) ==
    IF answer = None THEN stop(l)
    ELSE [l EXCEPT !.start_block = answer[1], !.cursor = answer[1] + 1, !.pc = "stream"]

WsConnect ==
    /\ listener.mode = "ws" /\ listener.pc = "connect"
    /\ \E answer \in {None} \cup {Some(b) : b \in 0..MaxBlock} :
         /\ listener' = ws_connect(listener, answer)
         /\ channel' = IF answer = None THEN [channel EXCEPT !.tx = "dropped"] ELSE channel
    /\ UNCHANGED <<call, intents, req, status_updates, poll, reply, earlier, chain, consumer>>

\* The first block from c on that carries a log, or MaxBlock + 1.
RECURSIVE next_log_block(_, _)
next_log_block(ch, c) ==
    IF c > MaxBlock THEN MaxBlock + 1
    ELSE IF ch[c] # "none" THEN c
    ELSE next_log_block(ch, c + 1)

\* One turn of `while let Some(log) = stream.next().await`: the stream has
\* ended, or its next log is decoded (an undecodable one is skipped).
ws_next(l, ch, ended) ==
    IF ended THEN stop(l)
    ELSE LET b == next_log_block(ch, l.cursor)
             parsed == parse_intent_created_log([block |-> b, kind |-> ch[b]])
         IN IF parsed = None THEN [l EXCEPT !.cursor = b + 1]
            ELSE [l EXCEPT !.cursor = b + 1, !.event = parsed, !.pc = "send"]

\* WsNext whose task ends with the sender kept alive.
WsNextKeepsSender ==
    /\ listener.mode = "ws" /\ listener.pc = "stream"
    /\ \E ended \in BOOLEAN :
         /\ ended \/ next_log_block(chain, listener.cursor) <= MaxBlock
         /\ listener' = ws_next(listener, chain, ended)
         /\ channel' = channel
    /\ UNCHANGED <<call, intents, req, status_updates, poll, reply, earlier, chain, consumer>>

WsNext ==
    /\ listener.mode = "ws" /\ listener.pc = "stream"
    /\ \E ended \in BOOLEAN :
         /\ ended \/ next_log_block(chain, listener.cursor) <= MaxBlock
         /\ listener' = ws_next(listener, chain, ended)
         /\ channel' = IF ended THEN [channel EXCEPT !.tx = "dropped"] ELSE channel
    /\ UNCHANGED <<call, intents, req, status_updates, poll, reply, earlier, chain, consumer>>

\* recv that hands out the newest buffered event.
channel_recv_newest(ch) ==
    [event |-> ch.buffer[Len(ch.buffer)],
     channel |-> [ch EXCEPT !.buffer = SubSeq(@, 1, Len(@) - 1)]]

\* Receiver::recv on a channel with a buffered event
channel_recv(ch) ==
    [event |-> Head(ch.buffer), channel |-> [ch EXCEPT !.buffer = Tail(@)]]

\* event_rx.recv().await in the consumer loop: the next buffered event, or
\* None once the buffer is empty and the sender is dropped, which ends the
\* loop (and with it the receiver).
ConsumerRecv ==
    /\ listener.mode # "none"
    /\ consumer.pc = "recv"
    /\ IF channel.buffer # <<>>
       THEN LET got == channel_recv(channel) IN
            /\ channel' = got.channel
            /\ consumer' = [consumer EXCEPT !.pc = "process",
                                            !.received = Append(@, got.event),
                                            !.processing = Some(got.event)]
       ELSE /\ channel.tx = "dropped"
            /\ channel' = [channel EXCEPT !.rx = "closed"]
            /\ consumer' = [consumer EXCEPT !.pc = "done"]
    /\ UNCHANGED <<call, intents, req, status_updates, poll, reply, earlier, chain, listener>>

\* The events the logs of the chain can carry.
LogEvents == {event_of([block |-> b, kind |-> k]) : b \in Blocks, k \in {"good", "huge"}}

\* orchestrator.process_evm_to_sui(event) for each of these events: the frame
\* of the call at its return.
processed_event == [e \in LogEvents |-> process_evm_to_sui(e)]

\* consumer_process whose loop ends at the first error of process_evm_to_sui.
consumer_process_stops_on_error(c) ==
    LET f == processed_event[c.processing[1]]
        outcome == [intent_id |-> c.processing[1].intent_id, result |-> f.result[1].kind]
    IN [c EXCEPT !.pc = IF f.result = Ok THEN "recv" ELSE "done",
                 !.processing = None, !.processed = Append(@, outcome)]

\* The body of the consumer loop for one event: process_evm_to_sui and the
\* match on its result, both arms of which only log.
consumer_process(c) ==
    LET f == processed_event[c.processing[1]]
        outcome == [intent_id |-> c.processing[1].intent_id, result |-> f.result[1].kind]
    IN [c EXCEPT !.pc = "recv", !.processing = None, !.processed = Append(@, outcome)]

ConsumerProcess ==
    /\ consumer.pc = "process"
    /\ consumer' = consumer_process(consumer)
    /\ UNCHANGED <<call, intents, req, status_updates, poll, reply, earlier, chain, listener, channel>>

\* The owner of the receiver drops it while waiting: the channel is closed
\* and what it buffered is gone.
ConsumerDrop ==
    /\ listener.mode # "none"
    /\ consumer.pc = "recv"
    /\ channel' = [channel EXCEPT !.rx = "closed", !.buffer = <<>>]
    /\ consumer' = [consumer EXCEPT !.pc = "dropped"]
    /\ UNCHANGED <<call, intents, req, status_updates, poll, reply, earlier, chain, listener>>

\* ------------------------------------------------------------ specifications
Init ==
    /\ call = Idle
    /\ intents = <<>>
    /\ req = [r \in Reqs |-> NewReq]
    /\ status_updates = 0
    /\ poll = PollIdle
    /\ reply = NoReply
    /\ chain = EmptyChain
    /\ listener = NoListener
    /\ channel = NewChannel
    /\ consumer = NewConsumer
    /\ earlier = None

\* Calls of the orchestrator, one at a time.
Next ==
    \/ StartEvm \/ EvmNew \/ EvmSwapCompleted \/ EvmParse \/ EvmBuild \/ EvmNonce
    \/ EvmBridging \/ EvmBridgeCompleted \/ EvmDeposited \/ EvmCompleted \/ EvmReturn
    \/ StartSui \/ SuiStep \/ Finish

Spec == Init /\ [][Next]_vars

\* Calls of the orchestrator, one at a time, with events delivered again and
\* one of the process_evm_to_sui calls kept by its caller.
NextReplay ==
    \/ StartEvmReplay \/ EvmNew \/ EvmSwapCompleted \/ EvmParse \/ EvmBuild \/ EvmNonce
    \/ EvmBridging \/ EvmBridgeCompleted \/ EvmDeposited \/ EvmCompleted \/ EvmReturn
    \/ StartSui \/ SuiStep \/ Finish \/ FinishSeen

SpecReplay == Init /\ [][NextReplay]_vars

\* The API: concurrent create_intent requests and status updates on the store.
NextApi ==
    \/ \E r \in Reqs : CreateStart(r) \/ CreateProcess(r) \/ CreateGet(r)
    \/ \E id \in Reqs, status \in Statuses : UpdateIntentStatus(id, status)

SpecApi == Init /\ [][NextApi]_vars

\* Concurrent create_intent requests alone, interleaved at the store's lock.
NextCreate == \E r \in Reqs : CreateStart(r) \/ CreateProcess(r) \/ CreateGet(r)

SpecCreate == Init /\ [][NextCreate]_vars

\* The attestation client's poll_attestation.
NextPoll == PollStart \/ PollTimeout \/ PollLookup \/ PollSleep \/ PollFinish

SpecPoll == Init /\ [][NextPoll]_vars

FairPoll == SpecPoll /\ WF_vars(PollTimeout) /\ WF_vars(PollLookup) /\ WF_vars(PollSleep)

\* Calls of the stateless operations: the bridge client's parameter builder,
\* the bridge initiation endpoint and the strategy's id mapping.
NextCalls == CallBuildParams \/ CallInitSuiToEvmBridge \/ CallFromId

SpecCalls == Init /\ [][NextCalls]_vars

\* The listener task, the channel and the consumer.
NextIngest ==
    \/ ListenerStart
    \/ PollConnect \/ PollTick \/ PollQuery \/ PollNextLog
    \/ WsConnect \/ WsNext
    \/ Send
    \/ ConsumerRecv \/ ConsumerProcess \/ ConsumerDrop

SpecIngest == Init /\ [][NextIngest]_vars

\* The runtime keeps running the spawned listener task: a step of the task
\* that can complete is taken.  Nothing obliges the consumer to receive.
FairIngest ==
    SpecIngest /\ WF_vars(PollConnect) /\ WF_vars(PollQuery) /\ WF_vars(PollNextLog)
               /\ WF_vars(WsConnect) /\ WF_vars(Send)

\* The agent's main task runs too: its consumer loop receives and processes.
FairAgent == FairIngest /\ WF_vars(ConsumerRecv) /\ WF_vars(ConsumerProcess)

\* ======================================================================
\* Properties
\* ======================================================================
\* The transition table of the lifecycle.
ValidTransition(a, b) ==
    \/ a = "Pending" /\ b = "SwapCompleted"
    \/ a \in {"Pending", "SwapCompleted"} /\ b = "Bridging"
    \/ a = "Bridging" /\ b = "BridgeCompleted"
    \/ a = "BridgeCompleted" /\ b \in {"Deposited", "Completed"}
    \/ a = "Deposited" /\ b = "Completed"
    \/ a \notin Terminal /\ b \in {"Failed", "Cancelled"}

StatusesOf(updates) == [i \in 1..Len(updates) |-> updates[i].status]

IsPrefix(a, b) == Len(a) <= Len(b) /\ \A i \in 1..Len(a) : a[i] = b[i]

\* Every step of the walk w (a sequence of statuses) is in the table.
ValidWalk(w) == \A i \in 1..(Len(w) - 1) : ValidTransition(w[i], w[i + 1])

\* The step is create_intent's upsert of the intent it has just processed.
UpsertOfProcessed(r) == req[r].pc = "process" /\ req'[r].pc = "get"

\* C1: once a stored intent's status is Completed, Failed or Cancelled, no
\* operation on the store (a status update, an upsert after processing)
\* changes it to a different value.
C1_TerminalAbsorbing ==
    [][\A id \in DOMAIN intents :
          intents[id].status \in Terminal =>
              id \in DOMAIN intents' /\ intents'[id].status = intents[id].status]_vars

\* C2: every change of a stored intent's status is a step of the transition
\* table; the statuses that process_sui_to_evm sets before create_intent
\* upserts the processed intent count as steps of the walk, continuing from
\* the status the store held.
C2_ValidWalk ==
    [][\A id \in DOMAIN intents \cap DOMAIN intents' :
          intents'[id].status # intents[id].status =>
              \/ ValidTransition(intents[id].status, intents'[id].status)
              \/ \E r \in Reqs :
                    /\ new_id(r) = id
                    /\ UpsertOfProcessed(r)
                    /\ ValidWalk(<<intents[id].status>> \o
                                 StatusesOf(process_sui_to_evm(req[r].intent[1]).updates))]_vars

\* C3: a stored intent whose status is BridgeCompleted, Deposited or
\* Completed has its bridge_nonce set.
C3_NonceBeforeBridgeCompleted ==
    \A id \in DOMAIN intents :
        intents[id].status \in {"BridgeCompleted", "Deposited", "Completed"} =>
            intents[id].bridge_nonce # None

\* The usdc_amount of the intent is absent, is not a u64, or is zero.
BadSuiAmount(intent) ==
    \/ intent.usdc_amount = None
    \/ ParseU64(intent.usdc_amount[1]) = None
    \/ ParseU64(intent.usdc_amount[1]) = Some(Zero)

\* C4: process_sui_to_evm on an intent whose usdc_amount is absent, not a
\* u64 or zero never changes the intent (status and bridge_nonce included),
\* builds no parameters, and returns InvalidAmount.
C4_InvalidAmountNoChange ==
    (call.op = "sui" /\ BadSuiAmount(call.input[1])) =>
        /\ call.intent = call.input
        /\ call.updates = <<>>
        /\ call.params = None
        /\ call.pc \in {"parse", "done"}
        /\ call.pc = "done" =>
             call.result # None /\ call.result[1].kind = "InvalidAmount"

C4_Witness ==
    /\ call.op = "sui" /\ call.pc = "done"
    /\ call.input[1].usdc_amount = Some(<<"0">>)
    /\ call.input[1].status = "Pending"
    /\ call.result = Err("InvalidAmount", <<"0">>)

\* C5: process_evm_to_sui on an event whose usdc_amount is not a u64 returns
\* InvalidAmount carrying that string; it returns no intent, builds no burn
\* parameters, assigns no bridge nonce and sets no status other than
\* SwapCompleted.
C5_UnparsableEventStops ==
    (call.op = "evm" /\ ParseU64(call.event[1].usdc_amount) = None) =>
        /\ call.returned = None
        /\ call.params = None
        /\ call.intent # None => call.intent[1].bridge_nonce = None
        /\ \A i \in 1..Len(call.updates) : call.updates[i].status = "SwapCompleted"
        /\ call.pc = "done" =>
             call.result = Err("InvalidAmount", call.event[1].usdc_amount)

C5_Witness ==
    /\ call.op = "evm" /\ call.pc = "done"
    /\ call.event[1].usdc_amount = <<"-", "7">>
    /\ call.result = Err("InvalidAmount", <<"-", "7">>)
    /\ StatusesOf(call.updates) = <<"SwapCompleted">>

EvmWalk == <<"SwapCompleted", "Bridging", "BridgeCompleted", "Deposited", "Completed">>

\* C6: a process_evm_to_sui call on an event with a u64 usdc_amount sets, on
\* a freshly constructed intent, the statuses SwapCompleted, Bridging,
\* BridgeCompleted, Deposited, Completed in that order, each once, and
\* returns Ok with that intent: status Completed, the event's usdc_amount,
\* bridge_nonce set.
C6_EvmToSuiWalk ==
    call.op = "evm" =>
        /\ IsPrefix(StatusesOf(call.updates), EvmWalk)
        /\ (call.pc = "done" /\ ParseU64(call.event[1].usdc_amount) # None) =>
             /\ call.result = Ok
             /\ StatusesOf(call.updates) = EvmWalk
             /\ call.returned # None
             /\ call.returned[1].id = call.event[1].intent_id
             /\ call.returned[1].direction = "EvmToSui"
             /\ call.returned[1].status = "Completed"
             /\ call.returned[1].usdc_amount = Some(call.event[1].usdc_amount)
             /\ call.returned[1].bridge_nonce # None

C6_Witness ==
    /\ call.op = "evm" /\ call.pc = "done" /\ call.result = Ok
    /\ call.event[1].usdc_amount = <<"1", "5", "0", "0", "0", "0", "0">>
    /\ call.returned[1].status = "Completed"

SuiWalk == <<"Bridging", "BridgeCompleted", "Completed">>

\* C7: a process_sui_to_evm call on an intent with a positive u64
\* usdc_amount sets exactly Bridging, BridgeCompleted, Completed in that
\* order, has recorded the bridge nonce on the intent when it sets Bridging,
\* and returns Ok leaving the intent Completed.
C7_SuiToEvmWalk ==
    (call.op = "sui" /\ ~BadSuiAmount(call.input[1])) =>
        /\ IsPrefix(StatusesOf(call.updates), SuiWalk)
        /\ Len(call.updates) >= 1 =>
             call.updates[1].bridge_nonce = Some(mock_nonce(call.input[1].id))
        /\ call.pc = "done" =>
             /\ call.result = Ok
             /\ StatusesOf(call.updates) = SuiWalk
             /\ call.intent[1].status = "Completed"
             /\ call.intent[1].bridge_nonce = Some(mock_nonce(call.input[1].id))

C7_Witness ==
    /\ call.op = "sui" /\ call.pc = "done" /\ call.result = Ok
    /\ call.input[1].status = "Pending" /\ call.input[1].bridge_nonce = None
    /\ call.intent[1].status = "Completed"

\* C8: an orchestrator call sets BridgeCompleted only after the bridge
\* client has returned it a non-empty attestation.
C8_AttestationBeforeBridgeCompleted ==
    (\E i \in 1..Len(call.updates) : call.updates[i].status = "BridgeCompleted") =>
        call.attestation # None

IsEmptyResult(resp) ==
    get_attestation(resp).kind = "Ok" /\ get_attestation(resp).attestation = None

IsAttestation(resp) == get_attestation(resp).attestation # None

Timeout == Some(Outcome("AttestationTimeout", 0, "", None))

\* C9: against a service whose every answer yields an empty result,
\* poll_attestation never makes more than max_attempts lookups, ends with
\* exactly max_attempts lookups and AttestationTimeout, and every call ends.
C9_TimeoutAfterMaxAttempts ==
    /\ [](poll.lookups <= poll.max_attempts)
    /\ []((poll.pc = "done" /\ \A i \in 1..Len(poll.answers) : IsEmptyResult(poll.answers[i]))
            => (poll.lookups = poll.max_attempts /\ poll.result = Timeout))
    /\ ((poll.pc # "idle") ~> (poll.pc = "done"))

C9_Witness ==
    /\ poll.pc = "done" /\ poll.max_attempts = 3 /\ poll.lookups = 3
    /\ \A i \in 1..Len(poll.answers) : IsEmptyResult(poll.answers[i])
    /\ poll.result = Timeout

\* C10: when a lookup yields a non-empty attestation, that lookup is the
\* call's last one and the call returns that attestation: with the first
\* non-empty answer on lookup k, the call ends after exactly k lookups and
\* not with AttestationTimeout.
C10_ReturnOnFirstAttestation ==
    \A k \in 1..Len(poll.answers) :
        IsAttestation(poll.answers[k]) =>
            /\ k = Len(poll.answers)
            /\ poll.lookups = k
            /\ k <= poll.max_attempts
            /\ poll.pc = "done"
            /\ poll.result = Some(get_attestation(poll.answers[k]))
            /\ poll.result # Timeout

C10_Witness ==
    /\ poll.pc = "done" /\ poll.lookups = 2 /\ poll.max_attempts = 3
    /\ IsAttestation(poll.answers[2])
    /\ poll.result[1].attestation =
         Some([message |-> "msg", attestation_signature |-> "sig"])

\* The outcome got is what the classification of answers prescribes for the
\* answer resp of the service (a response was received: resp.sent).
Classified(resp, got) ==
    /\ resp.status = 404 => got = Outcome("Ok", 0, "", None)
    /\ (resp.status # 404 /\ ~(resp.status \in 200..299)) =>
          got = Outcome("Api", resp.status, resp.body, None)
    /\ (resp.status \in 200..299 /\ resp.json
          /\ (resp.data = None \/ resp.data[1].status # "complete")) =>
          got = Outcome("Ok", 0, "", None)
    /\ (resp.status \in 200..299 /\ resp.json
          /\ resp.data # None /\ resp.data[1].status = "complete") =>
          got = Outcome("Ok", 0, "",
                        Some([message |-> resp.data[1].message,
                              attestation_signature |-> resp.data[1].attestation_signature]))
    /\ got.attestation # None =>
          (resp.status \in 200..299 /\ resp.data # None /\ resp.data[1].status = "complete")

\* C11: get_attestation turns a not-found answer into an empty result, any
\* other non-success answer into Api{status, message} with the answer's
\* status and body, a success answer whose data is absent or whose status is
\* not exactly "complete" into an empty result, and a success answer with
\* status "complete" into the attestation of its message and signature; no
\* other answer yields an attestation.  The result a lookup hands to
\* poll_attestation's caller is classified the same way.
C11_GetAttestationClassification ==
    /\ \A i \in 1..Len(poll.answers) :
          poll.answers[i].sent => Classified(poll.answers[i], get_attestation(poll.answers[i]))
    /\ (poll.pc = "done" /\ poll.result # Timeout /\ poll.answers[Len(poll.answers)].sent) =>
          Classified(poll.answers[Len(poll.answers)], poll.result[1])

C11_Witness ==
    /\ poll.pc = "done" /\ poll.lookups = 2
    /\ poll.answers[1].status = 404
    /\ poll.answers[2].status = 500
    /\ poll.result = Some(Outcome("Api", 500, "oops", None))

\* C12: build_deposit_for_burn_params always returns a record, which
\* carries the amount, the destination domain and the destination address
\* it was given, unchanged, next to the two contract addresses, which are
\* the same for every input.
C12_BuildParamsPure ==
    reply.op = "build_deposit_for_burn_params" =>
        /\ Len(reply.result) = 1
        /\ DOMAIN reply.result[1] = {"token_messenger", "usdc_address", "amount",
                                     "destination_domain", "destination_address"}
        /\ reply.result[1].amount = reply.args[1]
        /\ reply.result[1].destination_domain = reply.args[2]
        /\ reply.result[1].destination_address = reply.args[3]
        /\ reply.result[1].token_messenger = "0x9a4427fd4196d315517ed71ddd16BD053cC9c4a4"
        /\ reply.result[1].usdc_address = "0x036CbD53842c5426634e7929541eC2318f3dCF7e"

C12_Witness ==
    /\ reply.op = "build_deposit_for_burn_params"
    /\ reply.args = <<<<1, 5, 0, 0, 0, 0, 0>>, 10, "0xabc">>
    /\ reply.result[1].amount = <<1, 5, 0, 0, 0, 0, 0>>
    /\ reply.result[1].destination_domain = 10
    /\ reply.result[1].destination_address = "0xabc"

\* C13: the burn parameters an orchestrator call has built have destination
\* domain 10 in process_evm_to_sui and 5 in process_sui_to_evm, the
\* intent's dest_address as destination address, and the parsed usdc_amount
\* as amount.
C13_OrchestratorBurnParams ==
    call.params # None =>
        /\ call.params[1].destination_address = call.intent[1].dest_address
        /\ call.op = "evm" =>
             /\ call.params[1].destination_domain = 10
             /\ call.params[1].destination_address = call.event[1].sui_destination
             /\ Some(call.params[1].amount) = ParseU64(call.event[1].usdc_amount)
        /\ call.op = "sui" =>
             /\ call.params[1].destination_domain = 5
             /\ call.params[1].destination_address = call.input[1].dest_address
             /\ Some(call.params[1].amount) = ParseU64(call.input[1].usdc_amount[1])

C13_Witness ==
    /\ call.op = "sui" /\ call.pc = "done" /\ call.result = Ok
    /\ call.input[1].usdc_amount = Some(<<"+", "7">>)
    /\ call.params[1].destination_domain = 5
    /\ call.params[1].amount = <<7>>
    /\ call.params[1].destination_address = "0xevm"

\* C14: the burn parameters of the bridge initiation endpoint carry the
\* registry's domain id of Base, the one process_sui_to_evm uses.
C14_BaseDomainConsistent ==
    reply.op = "init_sui_to_evm_bridge" =>
        reply.result[1].dest_domain = CCTP_DOMAIN_BASE

\* The event the log of block b decodes to.
EventAt(b) == event_of([block |-> b, kind |-> chain[b]])

\* The event e has been accepted by the channel.
Sent(e) == \E i \in 1..Len(listener.sent) : listener.sent[i] = e

\* C15: in poll mode, with the channel open, whenever the listener is
\* between two ticks every decodable log in a block above the start block
\* and up to last_block has been sent on the channel.
C15_AtLeastOnce ==
    (listener.mode = "poll" /\ listener.pc = "sleep" /\ channel.rx = "open") =>
        \A b \in Blocks :
            (listener.start_block < b /\ b <= listener.last_block
                /\ chain[b] \in {"good", "huge"})
                => Sent(EventAt(b))

\* C16: the consumer receives the events in the order the listener decoded
\* and sent them (the order of their logs), with none left out in between:
\* what it has received, followed by what the channel buffers, is what was
\* sent.
C16_ChannelOrder ==
    /\ IsPrefix(consumer.received, listener.sent)
    /\ \A i, j \in 1..Len(listener.sent) :
          i < j => listener.sent[i].intent_id < listener.sent[j].intent_id
    /\ channel.rx = "open" => consumer.received \o channel.buffer = listener.sent

C16_Witness ==
    /\ listener.mode = "ws"
    /\ channel.buffer = <<>>
    /\ chain[1] = "good" /\ chain[2] = "bad" /\ chain[3] = "good"
    /\ consumer.received = <<EventAt(1), EventAt(3)>>

\* C17: with the receiver closed, the listener's attempt to send ends the
\* task and sends nothing; a task that has ended sends no event and makes
\* no log query and no block-number read; and a listener at a send on a
\* closed channel does end.
C17_ClosedChannelStops ==
    /\ [][/\ (listener.pc = "send" /\ channel.rx # "open" /\ listener' # listener) =>
                /\ listener'.pc = "stopped"
                /\ listener'.sent = listener.sent
                /\ listener'.queries = listener.queries
                /\ listener'.ticks = listener.ticks
                /\ channel'.buffer = channel.buffer
          /\ listener.pc = "stopped" =>
                /\ listener' = listener
                /\ Len(channel'.buffer) <= Len(channel.buffer)]_vars
    /\ (listener.pc = "send" /\ channel.rx # "open") ~> (listener.pc = "stopped")

C17_Witness ==
    /\ listener.mode = "poll" /\ listener.pc = "stopped"
    /\ listener.last_block < listener.current_block
    /\ consumer.pc = "dropped"
    /\ chain[1] = "good" /\ chain[2] = "good"
    /\ listener.sent = <<EventAt(1)>>

\* The listener waits in tx.send on a full channel whose receiver is open.
BlockedOnFull ==
    /\ listener.pc = "send"
    /\ Len(channel.buffer) = ChannelCapacity
    /\ channel.rx = "open"

\* C18: a listener that waits on a full channel whose consumer is open
\* does not wait forever: unless the consumer makes room or closes, the
\* listener ends its task.
C18_FullChannelStops ==
    BlockedOnFull ~> (listener.pc = "stopped" \/ ~BlockedOnFull)

\* C19: last_block never decreases; a tick that reads a current_block not
\* above last_block leaves the listener sleeping with last_block, the
\* queries made and the events sent unchanged; and a log query is only ever
\* made for a current_block above last_block.
C19_NoQueryOnSameBlock ==
    /\ [][/\ listener'.last_block >= listener.last_block
          /\ (/\ listener.mode = "poll" /\ listener.pc = "sleep"
              /\ listener'.ticks = listener.ticks + 1
              /\ listener'.pc # "stopped"
              /\ listener'.current_block <= listener.last_block) =>
                /\ listener'.pc = "sleep"
                /\ listener'.last_block = listener.last_block
                /\ listener'.queries = listener.queries
                /\ listener'.sent = listener.sent
                /\ channel' = channel]_vars
    /\ [](listener.pc = "query" => listener.current_block > listener.last_block)
    /\ [](\A i \in 1..Len(listener.queries) :
              listener.queries[i].from <= listener.queries[i].to)

C19_Witness ==
    /\ listener.mode = "poll" /\ listener.pc = "sleep"
    /\ listener.ticks = 2
    /\ listener.start_block = 2 /\ listener.last_block = 2
    /\ listener.current_block = 2
    /\ listener.queries = <<>>

\* C20: from_id maps 1..4 to the four named strategies and every other id
\* of 0..255 to Custom of that id, and the id of the strategy it returns is
\* the id it was given.
C20_FromIdRoundTrip ==
    reply.op = "from_id" =>
        /\ reply.args[1] = 1 => reply.result[1].tag = "ScallopUsdc"
        /\ reply.args[1] = 2 => reply.result[1].tag = "ScallopSui"
        /\ reply.args[1] = 3 => reply.result[1].tag = "NaviUsdc"
        /\ reply.args[1] = 4 => reply.result[1].tag = "NaviSui"
        /\ reply.args[1] \notin 1..4 =>
             reply.result[1] = [tag |-> "Custom", custom |-> reply.args[1]]
        /\ reply.result[2] = reply.args[1]

C20_Witness ==
    /\ reply.op = "from_id"
    /\ reply.args = <<255>>
    /\ reply.result = <<[tag |-> "Custom", custom |-> 255], 255>>

\* The store entry a create_intent request leaves when it runs alone on an
\* empty store, given the intent it first stores.
AloneStored(initial) ==
    LET first == upsert_intent(<<>>, initial)
        f == process_sui_to_evm(initial)
        last == IF initial.direction = "SuiToEvm" /\ f.result = Ok
                THEN upsert_intent(first, f.intent[1]) ELSE first
    IN get_intent(last, initial.id)[1]

\* C21: with concurrent create_intent requests, each under its own id, the
\* store holds for every finished request the entry that request would have
\* left running alone, holds nothing else, and a step of one request leaves
\* every other id's entry as it was.
C21_ConcurrentCreatesIndependent ==
    /\ [](\A r \in Reqs :
            (req[r].pc = "done" /\ req[r].initial # None) =>
                /\ new_id(r) \in DOMAIN intents
                /\ intents[new_id(r)] = AloneStored(req[r].initial[1]))
    /\ [](DOMAIN intents = {new_id(r) : r \in {q \in Reqs : req[q].initial # None}})
    /\ [][\A r \in Reqs : \A id \in DOMAIN intents :
            (req'[r] # req[r] /\ id # new_id(r)) =>
                id \in DOMAIN intents' /\ intents'[id] = intents[id]]_vars

C21_Witness ==
    /\ \A r \in Reqs : req[r].pc = "done"
    /\ 1 \in DOMAIN intents /\ 2 \in DOMAIN intents
    /\ intents[1].direction = "SuiToEvm" /\ intents[1].status = "Completed"
    /\ intents[2].direction = "EvmToSui" /\ intents[2].status = "Pending"

\* C27: in create_intent with direction SuiToEvm the intent is in the store
\* as first built before it is processed; when process_sui_to_evm fails (the
\* amount is absent, unparsable or zero) the entry stays exactly that intent
\* and the response is a success carrying it; when it succeeds the entry and
\* the response carry the processed intent, Completed with its nonce.
C27_CreateSuiToEvmErrorKeepsInitial ==
    \A r \in Reqs :
        (req[r].initial # None /\ req[r].initial[1].direction = "SuiToEvm") =>
            LET initial == req[r].initial[1] IN
            /\ new_id(r) \in DOMAIN intents
            /\ initial.status = "Pending" /\ initial.bridge_nonce = None
            /\ req[r].pc = "process" => intents[new_id(r)] = initial
            /\ BadSuiAmount(initial) =>
                 /\ req[r].pc \in {"process", "done"}
                 /\ intents[new_id(r)] = initial
                 /\ req[r].pc = "done" =>
                      req[r].response = Some([kind |-> "Ok", intent |-> Some(initial)])
            /\ (~BadSuiAmount(initial) /\ req[r].pc \in {"get", "done"}) =>
                 /\ intents[new_id(r)].status = "Completed"
                 /\ intents[new_id(r)].bridge_nonce # None
                 /\ intents[new_id(r)].id = initial.id
                 /\ req[r].pc = "done" =>
                      req[r].response =
                          Some([kind |-> "Ok", intent |-> Some(intents[new_id(r)])])

C27_Witness ==
    \E r \in Reqs :
        /\ req[r].pc = "done" /\ req[r].initial # None
        /\ req[r].initial[1].direction = "SuiToEvm"
        /\ req[r].initial[1].usdc_amount = Some(<<"0">>)
        /\ req[r].response = Some([kind |-> "Ok", intent |-> req[r].initial])
        /\ intents[new_id(r)] = req[r].initial[1]

\* A run of poll_attestation that makes n >= 1 lookups performs exactly n - 1
\* sleeps, and no lookup is preceded by a sleep before the first one.
C23_SleepsOneLessThanLookups ==
    /\ poll.lookups = 0 => poll.sleeps = 0
    /\ (poll.pc = "done" /\ poll.lookups >= 1) => poll.sleeps = poll.lookups - 1

\* C23: poll_attestation makes its first lookup with no preceding sleep and
\* sleeps once after every lookup that yields an empty result, the last one
\* of the range included: a run that ends with an attestation or an error
\* after n lookups has slept n - 1 times, a run that ends with
\* AttestationTimeout after max_attempts lookups has slept max_attempts times.
C23_SleepAfterEveryEmptyLookup ==
    /\ poll.lookups = 0 => poll.sleeps = 0
    /\ poll.pc = "loop" => poll.sleeps = poll.lookups
    /\ poll.pc = "sleep" => poll.sleeps = poll.lookups - 1
    /\ (poll.pc = "done" /\ poll.result = Timeout) =>
          (poll.lookups = poll.max_attempts /\ poll.sleeps = poll.max_attempts)
    /\ (poll.pc = "done" /\ poll.result # Timeout) =>
          (poll.lookups >= 1 /\ poll.sleeps = poll.lookups - 1)

C23_Witness ==
    /\ poll.pc = "done" /\ poll.result = Timeout
    /\ poll.max_attempts = 2 /\ poll.lookups = 2 /\ poll.sleeps = 2

\* The answer resp makes get_attestation fail: the request was not sent, the
\* status is neither not-found nor a success, or a success body does not decode.
IsErrorAnswer(resp) ==
    \/ ~resp.sent
    \/ resp.status # 404 /\ ~(resp.status \in 200..299)
    \/ resp.status \in 200..299 /\ ~resp.json

\* C26: when a lookup of poll_attestation fails (Api, Request or Parse), that
\* lookup is the call's last one, no sleep follows it, and the call returns
\* that error, not AttestationTimeout.
C26_ErrorEndsPoll ==
    \A k \in 1..Len(poll.answers) :
        IsErrorAnswer(poll.answers[k]) =>
            /\ k = Len(poll.answers)
            /\ poll.pc = "done"
            /\ poll.lookups = k
            /\ poll.sleeps = k - 1
            /\ poll.result # Timeout
            /\ poll.result[1].kind \in {"Api", "Request", "Parse"}
            /\ poll.result[1].attestation = None
            /\ poll.result = Some(get_attestation(poll.answers[k]))

C26_Witness ==
    /\ poll.pc = "done" /\ poll.lookups = 2 /\ poll.sleeps = 1
    /\ poll.max_attempts = 3
    /\ ~poll.answers[2].sent
    /\ poll.result[1].kind = "Request"

\* The string s is a decimal numeral (as a uint256 is rendered) of a value of
\* 2^64 = 18446744073709551616 or more.
AtLeast2Pow64(s) ==
    /\ s # <<>>
    /\ \A i \in 1..Len(s) : s[i] \in DigitChars
    /\ NumLeq(<<1, 8, 4, 4, 6, 7, 4, 4, 0, 7, 3, 7, 0, 9, 5, 5, 1, 6, 1, 6>>,
              StripZeros([i \in 1..Len(s) |-> DigitVal(s[i])]))

\* The value the decimal numeral s (one leading '+' allowed) denotes.
Denoted(s) ==
    LET digits == IF s[1] = "+" THEN Tail(s) ELSE s IN
    StripZeros([i \in 1..Len(digits) |-> DigitVal(digits[i])])

\* C30: a usdc_amount denoting 2^64 or more makes process_evm_to_sui and
\* process_sui_to_evm return InvalidAmount and no burn parameters are built
\* for it; burn parameters that are built carry exactly the value the amount
\* string denotes, never a truncated or wrapped one.
C30_NoWrapAround ==
    /\ (call.op = "evm" /\ AtLeast2Pow64(call.event[1].usdc_amount)) =>
          /\ call.params = None /\ call.usdc = None /\ call.returned = None
          /\ call.pc = "done" =>
               call.result = Err("InvalidAmount", call.event[1].usdc_amount)
    /\ (call.op = "sui" /\ call.input[1].usdc_amount # None
          /\ AtLeast2Pow64(call.input[1].usdc_amount[1])) =>
          /\ call.params = None /\ call.usdc = None
          /\ call.pc = "done" =>
               call.result # None /\ call.result[1].kind = "InvalidAmount"
    /\ call.params # None =>
          call.params[1].amount =
              Denoted(IF call.op = "evm" THEN call.event[1].usdc_amount
                      ELSE call.input[1].usdc_amount[1])

C30_Witness ==
    /\ call.op = "evm" /\ call.pc = "done"
    /\ call.event[1].usdc_amount =
         <<"1", "8", "4", "4", "6", "7", "4", "4", "0", "7",
           "3", "7", "1", "1", "0", "5", "1", "6", "1", "6">>
    /\ call.result[1].kind = "InvalidAmount"
    /\ call.params = None

\* The last range queried, or the start block when none was.
LastScanned(l) ==
    IF l.queries = <<>> THEN l.start_block ELSE l.queries[Len(l.queries)].to

\* C24: in poll mode every log query covers the blocks last_block + 1 ..
\* current_block, a non-empty range, and last_block is current_block when
\* the listener sleeps again, with or without logs; so the first range
\* starts right above the start block and each next range starts right above
\* the end of the one before: no block is queried twice and none between the
\* start block and the latest scanned block is left out.
C24_QueryRangesContiguous ==
    listener.mode = "poll" =>
        LET q == listener.queries IN
        /\ \A i \in 1..Len(q) : q[i].from <= q[i].to
        /\ q # <<>> => q[1].from = listener.start_block + 1
        /\ \A i \in 1..(Len(q) - 1) : q[i + 1].from = q[i].to + 1
        /\ listener.pc = "sleep" => listener.last_block = LastScanned(listener)
        /\ listener.pc = "query" =>
              /\ listener.last_block = LastScanned(listener)
              /\ listener.current_block > listener.last_block
        /\ listener.pc \in {"batch", "send"} =>
              /\ q # <<>>
              /\ q[Len(q)].from = listener.last_block + 1
              /\ q[Len(q)].to = listener.current_block

C24_Witness ==
    /\ listener.mode = "poll" /\ listener.pc = "sleep"
    /\ listener.start_block = 0 /\ listener.last_block = 3
    /\ listener.queries = <<[from |-> 1, to |-> 1, ok |-> FALSE],
                            [from |-> 2, to |-> 3, ok |-> TRUE]>>

Decodable(b) == chain[b] \in {"good", "huge"}

\* The event of block b is sent, or is the one the listener is sending, or
\* its log is still in the batch being iterated.
SentOrPending(b) ==
    \/ Sent(EventAt(b))
    \/ listener.event = Some(EventAt(b))
    \/ \E j \in 1..Len(listener.batch) : listener.batch[j].block = b

\* The listener's step takes an undecodable log from the batch or the stream.
TakesBadLog ==
    /\ listener' # listener
    /\ \/ /\ listener.mode = "poll" /\ listener.pc = "batch"
          /\ listener.batch # <<>> /\ Head(listener.batch).kind = "bad"
       \/ /\ listener.mode = "ws" /\ listener.pc = "stream"
          /\ listener'.pc # "stopped"
          /\ next_log_block(chain, listener.cursor) <= MaxBlock
          /\ chain[next_log_block(chain, listener.cursor)] = "bad"

\* C25: a log that does not decode is skipped and the listener goes on:
\* taking such a log sends nothing and leaves the task iterating its batch or
\* stream; only events of decodable logs are ever sent or received; and
\* while the task runs, every decodable log of a batch got (poll mode) or of
\* the stream so far (push mode) is sent or about to be, undecodable logs
\* before it notwithstanding.
C25_DecodeFailureSkipped ==
    /\ [][TakesBadLog =>
            /\ listener'.pc = IF listener.mode = "poll" THEN "batch" ELSE "stream"
            /\ listener'.sent = listener.sent
            /\ listener'.event = None
            /\ channel' = channel
            /\ consumer' = consumer]_vars
    /\ [](\A i \in 1..Len(listener.sent) :
            /\ Decodable(listener.sent[i].intent_id)
            /\ listener.sent[i] = EventAt(listener.sent[i].intent_id))
    /\ [](\A i \in 1..Len(consumer.received) :
            Decodable(consumer.received[i].intent_id))
    /\ []((listener.mode = "poll" /\ listener.pc # "stopped") =>
            \A i \in 1..Len(listener.queries) :
                listener.queries[i].ok =>
                    \A b \in listener.queries[i].from..listener.queries[i].to :
                        Decodable(b) => SentOrPending(b))
    /\ []((listener.mode = "ws" /\ listener.pc \in {"stream", "send"}) =>
            \A b \in (listener.start_block + 1)..(listener.cursor - 1) :
                Decodable(b) => SentOrPending(b))

C25_Witness ==
    /\ listener.mode = "poll" /\ listener.pc = "sleep"
    /\ chain[1] = "bad" /\ chain[2] = "good"
    /\ listener.queries = <<[from |-> 1, to |-> 2, ok |-> TRUE]>>
    /\ listener.sent = <<EventAt(2)>>
    /\ consumer.received = <<EventAt(2)>>

\* C28: a listener task that has ended has dropped its sender; the consumer
\* loop ends only after the task has, with the buffer empty and every event
\* sent received; and once the task has ended the consumer loop does end
\* (unless its receiver is dropped from outside first).
C28_TaskEndClosesAndDrains ==
    /\ [](listener.pc = "stopped" => channel.tx = "dropped")
    /\ [](consumer.pc = "done" =>
            /\ listener.pc = "stopped"
            /\ channel.buffer = <<>>
            /\ consumer.received = listener.sent)
    /\ [][(listener.pc = "stopped" /\ consumer.pc # "dropped" /\ consumer'.pc # "dropped") =>
            consumer.received \o channel.buffer = consumer'.received \o channel'.buffer]_vars
    /\ (listener.pc = "stopped") ~> (consumer.pc \in {"done", "dropped"})

C28_Witness ==
    /\ listener.mode = "poll" /\ listener.pc = "stopped"
    /\ listener.ticks = 2
    /\ channel.tx = "dropped" /\ channel.rx = "closed"
    /\ consumer.pc = "done"
    /\ Len(consumer.received) = 2 /\ consumer.received = listener.sent

\* The outcome process_evm_to_sui has for the event e: InvalidAmount when
\* its amount is 2^64 or more, Ok for the amounts a log carries otherwise.
OutcomeOf(e) ==
    [intent_id |-> e.intent_id,
     result |-> IF AtLeast2Pow64(e.usdc_amount) THEN "InvalidAmount" ELSE "Ok"]

\* C29: the consumer loop passes every event it receives to
\* process_evm_to_sui, one at a time and in the order received, whatever the
\* outcomes of the events before it: finishing an event, with an error or
\* not, leaves the loop receiving with the channel as it was, and the event
\* being processed is the one received last.
C29_ConsumerContinuesAfterError ==
    /\ [](Len(consumer.processed) =
            Len(consumer.received) - (IF consumer.pc = "process" THEN 1 ELSE 0))
    /\ [](\A i \in 1..Len(consumer.processed) :
            consumer.processed[i] = OutcomeOf(consumer.received[i]))
    /\ [][(consumer.pc = "process" /\ consumer' # consumer) =>
            /\ consumer'.pc = "recv"
            /\ channel' = channel
            /\ consumer'.received = consumer.received]_vars
    /\ [](consumer.pc = "process" =>
            consumer.processing = Some(consumer.received[Len(consumer.received)]))

C29_Witness ==
    /\ chain[1] = "huge" /\ chain[2] = "good"
    /\ consumer.pc = "done"
    /\ consumer.processed = <<[intent_id |-> 1, result |-> "InvalidAmount"],
                              [intent_id |-> 2, result |-> "Ok"]>>

====
